---------------------------- MODULE Spec2Model ----------------------------
(***************************************************************************)
(* A model of the in-memory virtual filesystem of src/src/lib.rs (Vfs).    *)
(*                                                                         *)
(* Strings are sequences of one-character strings, so that dirname,        *)
(* basename and segmentize are computed character by character as the      *)
(* source computes them.  Vec<T> is a sequence; the source's 0-based       *)
(* index i is position i + 1 (operator At).  HashMap<String, usize> is a   *)
(* function from names to inode ids.                                       *)
(*                                                                         *)
(* BLOCK_SIZE and INITIAL_BLOCKS_COUNT are scaled down (512 and 1024 in    *)
(* the source) and usize is scaled to USIZE_MAX.                           *)
(***************************************************************************)
EXTENDS Integers, Sequences, FiniteSets, TLC

\* ------------------------------------------------------------------ bounds
\* src/src/lib.rs:7 (512 in the source, scaled down)
BLOCK_SIZE == 2
\* src/src/lib.rs:8 (1024 in the source, scaled down)
INITIAL_BLOCKS_COUNT == 3
\* the largest usize of the model (2^64 - 1 in the source)
USIZE_MAX == 60000
\* a run of Spec makes at most this many calls
MaxOps == 4
\* a run of SpecFile makes at most this many calls
MaxFileOps == 6
\* a run of SpecResolve makes at most this many calls
MaxResolveOps == 5
\* a run of SpecReuse makes at most this many calls
MaxReuseOps == 5
\* a run of SpecDir makes at most this many calls
MaxDirOps == 4
\* a run of SpecBytes makes at most this many calls
MaxBytesOps == 6
\* a run of SpecWalk makes at most this many calls
MaxWalkOps == 3
\* at most this many handles are open at a time in the model
MaxOpen == 2
\* the hop limit of the reference walk, which the limit of the code never cuts
RefLimit == 12

\* src/src/lib.rs:13
SYMLINK_RESOLVE_LIMIT == 8

\* ------------------------------------------------------------- constants
DOT == <<".">>
DOTDOT == <<".", ".">>
PATHNAME_SEPARATOR == "/"
TRAILING_SEPARATOR == "/"

\* ------------------------------------------------------------- Vec, usize
At(vec, i) == vec[i + 1]

InRange(vec, i) == i >= 0 /\ i < Len(vec)

Min(a, b) == IF a <= b THEN a ELSE b

Max(a, b) == IF a >= b THEN a ELSE b

\* a sequence of n copies of x
Fill(n, x) == [k \in 1..n |-> x]

Reverse(s) == [k \in 1..Len(s) |-> s[Len(s) + 1 - k]]

\* ------------------------------------------------------------ path strings
is_absolute(pathname) == Len(pathname) >= 1 /\ pathname[1] = PATHNAME_SEPARATOR

\* str::rfind: 0-based index of the last separator, -1 for None
RFind(pathname) ==
    LET idx == {k \in 1..Len(pathname) : pathname[k] = PATHNAME_SEPARATOR}
    IN  IF idx = {} THEN -1
        ELSE (CHOOSE k \in idx : \A m \in idx : m <= k) - 1

\* a dirname that takes a pathname without a separator to be in the root (a
\* variant of dirname)
DirnameInRoot(pathname) ==
    LET idx == RFind(pathname)
    IN  IF idx = -1 THEN <<PATHNAME_SEPARATOR>>
        ELSE IF idx = 0 THEN <<PATHNAME_SEPARATOR>>
        ELSE SubSeq(pathname, 1, idx)


dirname(pathname) ==
    LET idx == RFind(pathname)
    IN  IF idx = -1 THEN DOT
        ELSE IF idx = 0 THEN <<PATHNAME_SEPARATOR>>
        ELSE SubSeq(pathname, 1, idx)

basename(pathname) ==
    LET idx == RFind(pathname)
    IN  IF idx = -1 THEN pathname
        ELSE SubSeq(pathname, idx + 2, Len(pathname))

RECURSIVE TrimStart(_)
TrimStart(s) ==
    IF s # <<>> /\ Head(s) = TRAILING_SEPARATOR THEN TrimStart(Tail(s)) ELSE s

RECURSIVE trim_end_matches(_)
trim_end_matches(s) ==
    IF s # <<>> /\ s[Len(s)] = TRAILING_SEPARATOR
    THEN trim_end_matches(SubSeq(s, 1, Len(s) - 1))
    ELSE s

trim_matches(s) == trim_end_matches(TrimStart(s))

\* str::split: the pieces between separators, empty pieces included
RECURSIVE SplitFrom(_, _, _)
SplitFrom(s, k, cur) ==
    IF k > Len(s) THEN <<cur>>
    ELSE IF s[k] = PATHNAME_SEPARATOR THEN <<cur>> \o SplitFrom(s, k + 1, <<>>)
    ELSE SplitFrom(s, k + 1, Append(cur, s[k]))

split(s) == SplitFrom(s, 1, <<>>)

segmentize(pathname, reverse) ==
    LET segments == SelectSeq(split(trim_matches(pathname)), LAMBDA seg : seg # <<>>)
    IN  IF reverse THEN Reverse(segments) ELSE segments

\* [String]::join
RECURSIVE join(_)
join(segs) ==
    IF segs = <<>> THEN <<>>
    ELSE IF Len(segs) = 1 THEN segs[1]
    ELSE segs[1] \o <<PATHNAME_SEPARATOR>> \o join(Tail(segs))

\* format!("{}/{}", pathname, DOT)
SlashDot(pathname) == pathname \o <<PATHNAME_SEPARATOR>> \o DOT

\* ----------------------------------------------------------------- Identity
IdentityNew(preallocate, min) ==
    [free |-> min .. (min + preallocate - 1), next |-> min + preallocate]

\* a next that takes the largest free id (a variant of IdentityNext)
IdentityNextLargest(idn) ==
    IF idn.free # {}
    THEN LET id == CHOOSE x \in idn.free : \A y \in idn.free : x >= y
         IN  [id |-> id, incremented |-> FALSE,
              idn |-> [idn EXCEPT !.free = @ \ {id}]]
    ELSE [id |-> idn.next, incremented |-> TRUE,
          idn |-> [idn EXCEPT !.next = @ + 1]]


\* Identity::next: (id, incremented) and the allocator afterwards
IdentityNext(idn) ==
    IF idn.free # {}
    THEN LET id == CHOOSE x \in idn.free : \A y \in idn.free : x <= y
         IN  [id |-> id, incremented |-> FALSE,
              idn |-> [idn EXCEPT !.free = @ \ {id}]]
    ELSE [id |-> idn.next, incremented |-> TRUE,
          idn |-> [idn EXCEPT !.next = @ + 1]]

IdentityFree(idn, id) == [idn EXCEPT !.free = @ \cup {id}]

\* ----------------------------------------------------------- FileDescriptor
NoEntries == [n \in {} |-> 0]

new_file ==
    [file_type |-> "Regular", blocks_refs |-> <<>>, entries |-> NoEntries,
     path |-> <<>>, size |-> 0, links |-> 1, refs |-> 0]

new_dir(id, parent_id) ==
    [file_type |-> "Directory", blocks_refs |-> <<>>,
     entries |-> [n \in {DOT, DOTDOT} |-> IF n = DOT THEN id ELSE parent_id],
     path |-> <<>>, size |-> 0, links |-> 1, refs |-> 0]

new_symlink(target) ==
    [file_type |-> "Symlink", blocks_refs |-> <<>>, entries |-> NoEntries,
     path |-> target, size |-> 0, links |-> 1, refs |-> 0]

is_dir(fd) == fd.file_type = "Directory"

is_file(fd) == fd.file_type = "Regular"

is_symlink(fd) == fd.file_type = "Symlink"

\* HashMap::insert
Insert(entries, name, id) ==
    [n \in DOMAIN entries \cup {name} |-> IF n = name THEN id ELSE entries[n]]

\* HashMap::remove
Remove(entries, name) == [n \in DOMAIN entries \ {name} |-> entries[n]]

\* -------------------------------------------------------------------- Vfs
VfsNew ==
    [blocks      |-> Fill(BLOCK_SIZE * INITIAL_BLOCKS_COUNT, 0),
     fds         |-> <<new_dir(0, 0)>>,
     open_fds    |-> [o \in {} |-> <<0, 0>>],
     blocks_id   |-> IdentityNew(INITIAL_BLOCKS_COUNT - 1, 1),
     fds_id      |-> IdentityNew(0, 1),
     open_fds_id |-> IdentityNew(0, 0),
     cwd_id      |-> 0,
     cwd         |-> <<PATHNAME_SEPARATOR>>]


root == 0

\* a resolver that allows one expansion more (a variant of HopLimitReached)
HopLimitReachedOffByOne(symlink_resolve_count, limit) ==
    symlink_resolve_count > limit

\* symlink_resolve_count >= SYMLINK_RESOLVE_LIMIT, with the limit a parameter
HopLimitReached(symlink_resolve_count, limit) == symlink_resolve_count >= limit

Fd(v, id) == At(v.fds, id)

\* what a walk returns: Some((fd, id, parent_id)) or None, with the number of
\* symlinks it expanded (hops) and whether the hop limit ended it (cut)
NoneResult ==
    [kind |-> "None", id |-> 0, parent_id |-> 0, hops |-> 0, cut |-> FALSE]

CutResult ==
    [kind |-> "None", id |-> 0, parent_id |-> 0, hops |-> 0, cut |-> TRUE]

PanicResult ==
    [kind |-> "panic", id |-> 0, parent_id |-> 0, hops |-> 0, cut |-> FALSE]

SomeResult(id, parent_id, hops) ==
    [kind |-> "Some", id |-> id, parent_id |-> parent_id, hops |-> hops,
     cut |-> FALSE]

\* Vec::pop on the segment stack: the top is the last element
Top(segments) == segments[Len(segments)]

Pop(segments) == SubSeq(segments, 1, Len(segments) - 1)

\* the loop of Vfs::resolve; fd is the id of the directory the walk stands in,
\* segments the reversed stack of segments still to walk
RECURSIVE ResolveLoop(_, _, _, _, _)
ResolveLoop(v, fd, segments, symlink_resolve_count, limit) ==
    IF ~is_dir(Fd(v, fd)) THEN PanicResult
    ELSE
    LET entries == Fd(v, fd).entries
        seg     == IF segments = <<>> THEN DOT ELSE Top(segments)
        rest    == IF segments = <<>> THEN <<>> ELSE Pop(segments)
    IN  IF seg \notin DOMAIN entries THEN NoneResult
        ELSE LET next_id == entries[seg] IN
        IF ~InRange(v.fds, next_id) THEN NoneResult
        ELSE LET next_fd == Fd(v, next_id) IN
        IF rest = <<>> THEN
            IF seg = DOTDOT THEN
                IF ~is_dir(next_fd) \/ DOTDOT \notin DOMAIN next_fd.entries
                THEN PanicResult
                ELSE SomeResult(next_id, next_fd.entries[DOTDOT], symlink_resolve_count)
            ELSE IF seg = DOT THEN
                IF DOTDOT \notin DOMAIN entries THEN PanicResult
                ELSE SomeResult(next_id, entries[DOTDOT], symlink_resolve_count)
            ELSE
                IF DOT \notin DOMAIN entries THEN PanicResult
                ELSE SomeResult(next_id, entries[DOT], symlink_resolve_count)
        ELSE IF is_dir(next_fd) THEN
            ResolveLoop(v, next_id, rest, symlink_resolve_count, limit)
        ELSE IF is_file(next_fd) THEN NoneResult
        ELSE IF HopLimitReached(symlink_resolve_count, limit) THEN CutResult
        ELSE ResolveLoop(v,
                         IF is_absolute(next_fd.path) THEN root ELSE fd,
                         rest \o segmentize(next_fd.path, TRUE),
                         symlink_resolve_count + 1, limit)

\* Vfs::resolve with the hop limit a parameter
ResolveWithin(v, pathname, limit) ==
    ResolveLoop(v,
                IF is_absolute(pathname) THEN root ELSE v.cwd_id,
                segmentize(pathname, TRUE), 0, limit)

resolve(v, pathname) == ResolveWithin(v, pathname, SYMLINK_RESOLVE_LIMIT)

\* Vfs::realpath: [kind |-> "Some", path |-> ...], "None" or "panic"
NonePath == [kind |-> "None", path |-> <<>>, hops |-> 0, cut |-> FALSE]

CutPath == [kind |-> "None", path |-> <<>>, hops |-> 0, cut |-> TRUE]

PanicPath == [kind |-> "panic", path |-> <<>>, hops |-> 0, cut |-> FALSE]

RECURSIVE RealpathLoop(_, _, _, _, _, _)
RealpathLoop(v, fd, realpath, segments, symlink_resolve_count, limit) ==
    IF segments = <<>>
    THEN [kind |-> "Some", path |-> <<PATHNAME_SEPARATOR>> \o join(realpath),
          hops |-> symlink_resolve_count, cut |-> FALSE]
    ELSE
    LET seg  == Top(segments)
        rest == Pop(segments)
    IN  IF ~is_dir(Fd(v, fd)) THEN PanicPath
        ELSE LET entries == Fd(v, fd).entries IN
        IF seg = DOT THEN RealpathLoop(v, fd, realpath, rest, symlink_resolve_count, limit)
        ELSE IF seg = DOTDOT THEN
            IF DOTDOT \notin DOMAIN entries \/ ~InRange(v.fds, entries[DOTDOT])
            THEN PanicPath
            ELSE RealpathLoop(v, entries[DOTDOT],
                              IF realpath = <<>> THEN <<>> ELSE Pop(realpath),
                              rest, symlink_resolve_count, limit)
        ELSE IF seg \notin DOMAIN entries \/ ~InRange(v.fds, entries[seg])
        THEN NonePath
        ELSE LET next_id == entries[seg]
                 next_fd == Fd(v, next_id) IN
        IF is_dir(next_fd) THEN
            RealpathLoop(v, next_id, Append(realpath, seg), rest,
                         symlink_resolve_count, limit)
        ELSE IF is_file(next_fd) THEN
            IF rest = <<>>
            THEN RealpathLoop(v, fd, Append(realpath, seg), rest,
                              symlink_resolve_count, limit)
            ELSE NonePath
        ELSE IF HopLimitReached(symlink_resolve_count, limit) THEN CutPath
        ELSE RealpathLoop(v,
                          IF is_absolute(next_fd.path) THEN root ELSE fd,
                          IF is_absolute(next_fd.path) THEN <<>> ELSE realpath,
                          rest \o segmentize(next_fd.path, TRUE),
                          symlink_resolve_count + 1, limit)

\* Vfs::realpath with the hop limit a parameter
RealpathWithin(v, pathname, limit) ==
    IF is_absolute(pathname)
    THEN RealpathLoop(v, root, <<>>, segmentize(pathname, TRUE), 0, limit)
    ELSE RealpathLoop(v, v.cwd_id, segmentize(v.cwd, FALSE),
                      segmentize(pathname, TRUE), 0, limit)

realpath(v, pathname) == RealpathWithin(v, pathname, SYMLINK_RESOLVE_LIMIT)


\* a count that stays where it is (a variant of NextCount)
NextCountStuck(symlink_resolve_count) == symlink_resolve_count


\* ------------------------------------------------- the walks, step by step
\* symlink_resolve_count += 1
NextCount(symlink_resolve_count) == symlink_resolve_count + 1

\* the iteration of the loop of Vfs::resolve at (fd, segments, count) ends
\* the loop with a return (or a panic)
ResolveReturns(v, fd, segments, symlink_resolve_count) ==
    LET seg  == IF segments = <<>> THEN DOT ELSE Top(segments)
        rest == IF segments = <<>> THEN <<>> ELSE Pop(segments)
    IN  \/ ~is_dir(Fd(v, fd))
        \/ seg \notin DOMAIN Fd(v, fd).entries
        \/ ~InRange(v.fds, Fd(v, fd).entries[seg])
        \/ rest = <<>>
        \/ is_file(Fd(v, Fd(v, fd).entries[seg]))
        \/ /\ is_symlink(Fd(v, Fd(v, fd).entries[seg]))
           /\ HopLimitReached(symlink_resolve_count, SYMLINK_RESOLVE_LIMIT)

\* the locals of the loop of Vfs::resolve after an iteration that does not
\* return: into a directory, or a symlink expanded onto the segment stack
ResolveIteration(v, w) ==
    LET rest    == Pop(w.segments)
        next_id == Fd(v, w.fd).entries[Top(w.segments)]
        next_fd == Fd(v, next_id)
    IN  IF is_dir(next_fd)
        THEN [w EXCEPT !.fd = next_id, !.segments = rest]
        ELSE [w EXCEPT
                !.fd = IF is_absolute(next_fd.path) THEN root ELSE @,
                !.segments = rest \o segmentize(next_fd.path, TRUE),
                !.symlink_resolve_count = NextCount(@)]

\* the iteration of the loop of Vfs::realpath at (fd, segments, count) ends
\* the walk: the stack is empty, or the iteration returns None (or panics)
RealpathReturns(v, fd, segments, symlink_resolve_count) ==
    \/ segments = <<>>
    \/ ~is_dir(Fd(v, fd))
    \/ /\ Top(segments) = DOTDOT
       /\ \/ DOTDOT \notin DOMAIN Fd(v, fd).entries
          \/ ~InRange(v.fds, Fd(v, fd).entries[DOTDOT])
    \/ /\ Top(segments) \notin {DOT, DOTDOT}
       /\ \/ Top(segments) \notin DOMAIN Fd(v, fd).entries
          \/ ~InRange(v.fds, Fd(v, fd).entries[Top(segments)])
          \/ /\ is_file(Fd(v, Fd(v, fd).entries[Top(segments)]))
             /\ Pop(segments) # <<>>
          \/ /\ is_symlink(Fd(v, Fd(v, fd).entries[Top(segments)]))
             /\ HopLimitReached(symlink_resolve_count, SYMLINK_RESOLVE_LIMIT)

\* the locals of the loop of Vfs::realpath after an iteration that does not
\* return
RealpathIteration(v, w) ==
    LET seg     == Top(w.segments)
        rest    == Pop(w.segments)
        entries == Fd(v, w.fd).entries
    IN  IF seg = DOT THEN [w EXCEPT !.segments = rest]
        ELSE IF seg = DOTDOT
        THEN [w EXCEPT !.fd = entries[DOTDOT],
                       !.realpath = IF @ = <<>> THEN <<>> ELSE Pop(@),
                       !.segments = rest]
        ELSE LET next_fd == Fd(v, entries[seg]) IN
        IF is_dir(next_fd)
        THEN [w EXCEPT !.fd = entries[seg], !.realpath = Append(@, seg),
                       !.segments = rest]
        ELSE IF is_file(next_fd)
        THEN [w EXCEPT !.realpath = Append(@, seg), !.segments = rest]
        ELSE [w EXCEPT
                !.fd = IF is_absolute(next_fd.path) THEN root ELSE @,
                !.realpath = IF is_absolute(next_fd.path) THEN <<>> ELSE @,
                !.segments = rest \o segmentize(next_fd.path, TRUE),
                !.symlink_resolve_count = NextCount(@)]


\* ------------------------------------------------------------ operations
\* An operation maps the Vfs value v and its arguments to the Vfs value
\* afterwards, the kind of result it returned and the value it returned.
\* A panic aborts the process (src/src/main.rs catches none): it is the
\* result "panic", with the Vfs value as it was before the call.
Ret(v, res, out) == [v |-> v, res |-> res, out |-> out]

Ok(v, out) == Ret(v, "Ok", out)

Err(v, kind) == Ret(v, kind, <<>>)

Panic(v) == Ret(v, "panic", <<>>)

SetFd(v, id, fd) == [v EXCEPT !.fds[id + 1] = fd]

\* usize subtraction: -1 stands for the overflow panic of a build with
\* overflow checks; a build without them (wrap) wraps around
Sub(a, b, wrap) ==
    IF a >= b THEN a - b
    ELSE IF wrap THEN USIZE_MAX + 1 - (b - a)
    ELSE -1

\* usize increment; only a value that wrapped before can overflow it
Inc(a) == IF a >= USIZE_MAX THEN 0 ELSE a + 1

\* the closure f is a function from the ids the allocator can return
alloc_fd(v, f) ==
    LET n  == IdentityNext(v.fds_id)
        fd == f[n.id]
    IN  [id |-> n.id,
         v  |-> IF n.incremented
                THEN [v EXCEPT !.fds_id = n.idn, !.fds = Append(@, fd)]
                ELSE [v EXCEPT !.fds_id = n.idn, !.fds[n.id + 1] = fd]]

\* the block ids of blocks_refs released one by one
RECURSIVE FreeBlocks(_, _)
FreeBlocks(idn, blocks_refs) ==
    IF blocks_refs = <<>> THEN idn
    ELSE FreeBlocks(IdentityFree(idn, Head(blocks_refs)), Tail(blocks_refs))

free_fd(v, id) ==
    LET fd == Fd(v, id)
    IN  IF fd.links > 0 \/ fd.refs > 0 THEN v
        ELSE [v EXCEPT
                !.blocks_id = IF is_file(fd) THEN FreeBlocks(@, fd.blocks_refs) ELSE @,
                !.fds_id = IdentityFree(@, id)]

\* the tail shared by symlink, mkdir and create once the parent is resolved
InsertNew(v, parent_id, name, f) ==
    LET a == alloc_fd(v, f)
    IN  [a.v EXCEPT !.fds[parent_id + 1].entries = Insert(@, name, a.id)]

\* the ids alloc_fd can hand to its closure
Ids(v) == 0 .. Len(v.fds)

symlink(v, path, pathname) ==
    LET base == basename(pathname)
        r    == resolve(v, dirname(pathname))
    IN  IF r.kind = "panic" THEN Panic(v)
        ELSE IF r.kind = "None" THEN Err(v, "NotFound")
        ELSE IF ~is_dir(Fd(v, r.id)) THEN Err(v, "NotADirectory")
        ELSE IF base \in DOMAIN Fd(v, r.id).entries \/ base = <<>>
        THEN Err(v, "Exists")
        ELSE Ok(InsertNew(v, r.id, base, [id \in Ids(v) |-> new_symlink(path)]), <<>>)

cd(v, pathname) ==
    LET dir == SlashDot(pathname)
        r   == resolve(v, dir)
    IN  IF r.kind = "panic" THEN Panic(v)
        ELSE IF r.kind = "None" THEN Err(v, "NotFound")
        ELSE IF ~is_dir(Fd(v, r.id)) THEN Err(v, "NotADirectory")
        ELSE LET rp == realpath(v, dir)
             IN  IF rp.kind # "Some" THEN Panic(v)
                 ELSE Ok([v EXCEPT !.cwd = rp.path, !.cwd_id = r.id], <<>>)

mkdir(v, pathname0) ==
    LET pathname == trim_end_matches(pathname0)
        base     == basename(pathname)
        r        == resolve(v, SlashDot(dirname(pathname)))
    IN  IF r.kind = "panic" THEN Panic(v)
        ELSE IF r.kind = "None" THEN Err(v, "NotFound")
        ELSE IF ~is_dir(Fd(v, r.id)) THEN Err(v, "NotADirectory")
        ELSE IF base \in DOMAIN Fd(v, r.id).entries \/ base = <<>>
        THEN Err(v, "Exists")
        ELSE Ok(InsertNew(v, r.id, base, [id \in Ids(v) |-> new_dir(id, r.id)]), <<>>)

\* the names rmdir's entries.iter().find(..) can return: a HashMap iterates
\* in no fixed order, so any name of the parent that maps to id
RmdirNames(v, pathname) ==
    LET r == resolve(v, pathname)
    IN  IF r.kind = "Some" /\ is_dir(Fd(v, r.parent_id))
        THEN {n \in DOMAIN Fd(v, r.parent_id).entries :
                  Fd(v, r.parent_id).entries[n] = r.id}
        ELSE {}

\* an rmdir that lets one entry besides "." and ".." pass (a variant of rmdir)
RmdirOfOneEntry(v, pathname, name) ==
    LET r == resolve(v, pathname)
    IN  IF r.kind = "panic" THEN Panic(v)
        ELSE IF r.kind = "None" THEN Err(v, "NotFound")
        ELSE IF r.id = 0 THEN Err(v, "IsARootDirectory")
        ELSE IF ~is_dir(Fd(v, r.id)) THEN Err(v, "NotADirectory")
        ELSE IF Cardinality(DOMAIN Fd(v, r.id).entries) > 3
        THEN Err(v, "DirectoryNotEmpty")
        ELSE IF ~is_dir(Fd(v, r.parent_id)) THEN Panic(v)
        ELSE LET v1 == IF name \in RmdirNames(v, pathname)
                       THEN [v EXCEPT !.fds[r.parent_id + 1].entries = Remove(@, name)]
                       ELSE v
                 v2 == free_fd(v1, r.id)
             IN  Ok(IF r.id = v2.cwd_id THEN [v2 EXCEPT !.cwd_id = 0] ELSE v2, <<>>)

\* name is the entry find(..) returned (any value when it returned None)
rmdir(v, pathname, name) ==
    LET r == resolve(v, pathname)
    IN  IF r.kind = "panic" THEN Panic(v)
        ELSE IF r.kind = "None" THEN Err(v, "NotFound")
        ELSE IF r.id = 0 THEN Err(v, "IsARootDirectory")
        ELSE IF ~is_dir(Fd(v, r.id)) THEN Err(v, "NotADirectory")
        ELSE IF Cardinality(DOMAIN Fd(v, r.id).entries) > 2
        THEN Err(v, "DirectoryNotEmpty")
        ELSE IF ~is_dir(Fd(v, r.parent_id)) THEN Panic(v)
        ELSE LET v1 == IF name \in RmdirNames(v, pathname)
                       THEN [v EXCEPT !.fds[r.parent_id + 1].entries = Remove(@, name)]
                       ELSE v
                 v2 == free_fd(v1, r.id)
             IN  Ok(IF r.id = v2.cwd_id THEN [v2 EXCEPT !.cwd_id = 0] ELSE v2, <<>>)

\* a stat that counts every block id, the holes too (a variant of FdStat)
FdStatCountingHoles(fd) ==
    <<fd.size,
      IF is_file(fd) THEN Len(fd.blocks_refs) ELSE 0,
      fd.links, fd.refs>>


\* FileDescriptor::stat: size, blocks, links, refs
FdStat(fd) ==
    <<fd.size,
      IF is_file(fd)
      THEN Cardinality({k \in 1..Len(fd.blocks_refs) : fd.blocks_refs[k] # 0})
      ELSE 0,
      fd.links, fd.refs>>

\* a stat that follows a symlink in the final position (a variant of stat)
StatFollowingFinal(v, pathname) ==
    LET rp == realpath(v, pathname)
    IN  IF rp.kind = "panic" THEN Panic(v)
        ELSE IF rp.kind = "None" THEN Err(v, "NotFound")
        ELSE LET r == resolve(v, rp.path)
             IN  IF r.kind = "panic" THEN Panic(v)
                 ELSE IF r.kind = "None" THEN Err(v, "NotFound")
                 ELSE Ok(v, FdStat(Fd(v, r.id)))

stat(v, pathname) ==
    LET r == resolve(v, pathname)
    IN  IF r.kind = "panic" THEN Panic(v)
        ELSE IF r.kind = "None" THEN Err(v, "NotFound")
        ELSE Ok(v, FdStat(Fd(v, r.id)))

\* a create that replaces an existing entry by a new empty file (a variant
\* of create)
CreateReplacing(v, pathname) ==
    LET base == basename(pathname)
        r    == resolve(v, SlashDot(dirname(pathname)))
    IN  IF r.kind = "panic" THEN Panic(v)
        ELSE IF r.kind = "None" THEN Err(v, "NotFound")
        ELSE IF ~is_dir(Fd(v, r.id)) THEN Err(v, "NotADirectory")
        ELSE IF base = <<>> THEN Ok(v, <<>>)
        ELSE Ok(InsertNew(v, r.id, base, [id \in Ids(v) |-> new_file]), <<>>)


create(v, pathname) ==
    LET base == basename(pathname)
        r    == resolve(v, SlashDot(dirname(pathname)))
    IN  IF r.kind = "panic" THEN Panic(v)
        ELSE IF r.kind = "None" THEN Err(v, "NotFound")
        ELSE IF ~is_dir(Fd(v, r.id)) THEN Err(v, "NotADirectory")
        ELSE IF base \in DOMAIN Fd(v, r.id).entries \/ base = <<>>
        THEN Ok(v, <<>>)
        ELSE Ok(InsertNew(v, r.id, base, [id \in Ids(v) |-> new_file]), <<>>)

link(v, pn1, pn2) ==
    LET base == basename(pn2)
        r1   == resolve(v, pn1)
        r2   == resolve(v, dirname(pn2))
    IN  IF r1.kind = "panic" \/ r2.kind = "panic" THEN Panic(v)
        ELSE IF r1.kind = "None" \/ r2.kind = "None" THEN Err(v, "NotFound")
        ELSE IF is_dir(Fd(v, r1.id)) THEN Err(v, "OperationNotPermitted")
        ELSE IF ~is_dir(Fd(v, r2.id)) THEN Err(v, "NotADirectory")
        ELSE IF base \in DOMAIN Fd(v, r2.id).entries \/ base = <<>>
        THEN Err(v, "Exists")
        ELSE Ok([v EXCEPT !.fds[r2.id + 1].entries = Insert(@, base, r1.id),
                          !.fds[r1.id + 1].links = Inc(@)], <<>>)

unlink(v, pathname, wrap) ==
    LET r == resolve(v, pathname)
    IN  IF r.kind = "panic" THEN Panic(v)
        ELSE IF r.kind = "None" THEN Err(v, "NotFound")
        ELSE IF is_dir(Fd(v, r.id)) THEN Err(v, "IsADirectory")
        ELSE IF ~is_dir(Fd(v, r.parent_id)) THEN Panic(v)
        ELSE LET links == Sub(Fd(v, r.id).links, 1, wrap)
             IN  IF links < 0 THEN Panic(v)
                 ELSE Ok(free_fd([v EXCEPT
                            !.fds[r.parent_id + 1].entries = Remove(@, basename(pathname)),
                            !.fds[r.id + 1].links = links], r.id), <<>>)

open(v, pathname) ==
    LET r == resolve(v, pathname)
    IN  IF r.kind = "panic" THEN Panic(v)
        ELSE IF r.kind = "None" THEN Err(v, "NotFound")
        ELSE IF ~is_file(Fd(v, r.id)) THEN Err(v, "OperationNotPermitted")
        ELSE LET n == IdentityNext(v.open_fds_id)
             IN  Ok([v EXCEPT !.fds[r.id + 1].refs = Inc(@),
                              !.open_fds_id = n.idn,
                              !.open_fds = Insert(@, n.id, <<r.id, 0>>)], <<n.id>>)

close(v, oid, wrap) ==
    IF oid \notin DOMAIN v.open_fds THEN Err(v, "BadFileDescriptor")
    ELSE LET id   == v.open_fds[oid][1]
             refs == Sub(Fd(v, id).refs, 1, wrap)
         IN  IF refs < 0 THEN Panic(v)
             ELSE Ok(free_fd([v EXCEPT !.open_fds = Remove(@, oid),
                                       !.open_fds_id = IdentityFree(@, oid),
                                       !.fds[id + 1].refs = refs], id), <<>>)

\* seek clamps a stale cursor before it checks the offset
seek(v, oid, offset) ==
    IF oid \notin DOMAIN v.open_fds THEN Err(v, "BadFileDescriptor")
    ELSE LET id     == v.open_fds[oid][1]
             cursor == v.open_fds[oid][2]
             fd     == Fd(v, id)
             v1     == IF cursor > fd.size
                       THEN [v EXCEPT !.open_fds[oid] = <<id, fd.size>>]
                       ELSE v
         IN  IF offset > fd.size THEN Err(v1, "InvalidOffset")
             ELSE Ok([v1 EXCEPT !.open_fds[oid] = <<id, offset>>], <<>>)


\* a copy that lands one byte late (a variant of CopyFromSlice)
CopyFromSliceShifted(blocks, from, bytes) ==
    [k \in 1..Len(blocks) |->
        IF k - 1 > from /\ k - 1 <= from + Len(bytes)
        THEN bytes[k - 1 - from] ELSE blocks[k]]

\* blocks[from..from + |bytes|].copy_from_slice(bytes)
CopyFromSlice(blocks, from, bytes) ==
    [k \in 1..Len(blocks) |->
        IF k - 1 >= from /\ k - 1 < from + Len(bytes)
        THEN bytes[k - from] ELSE blocks[k]]

\* the while loop of Vfs::write over st = (blocks, blocks_refs, blocks_id,
\* cursor); panic is set by an index or a slice out of range
RECURSIVE WriteLoop(_, _)
WriteLoop(st, rest) ==
    IF rest = <<>> \/ st.panic THEN st
    ELSE
    LET i       == st.cursor \div BLOCK_SIZE
        cur     == IF i < Len(st.blocks_refs) THEN At(st.blocks_refs, i) ELSE 0
        a       == IdentityNext(st.blocks_id)
        st1     == IF cur # 0 THEN st
                   ELSE IF i > Len(st.blocks_refs) THEN [st EXCEPT !.panic = TRUE]
                   ELSE [st EXCEPT
                           !.blocks_id = a.idn,
                           !.blocks = IF a.incremented
                                      THEN @ \o Fill(2 * BLOCK_SIZE, 0) ELSE @,
                           !.blocks_refs = IF Len(@) = i THEN Append(@, a.id)
                                           ELSE [@ EXCEPT ![i + 1] = a.id]]
        block_ref == IF cur # 0 THEN cur ELSE a.id
        offset  == st.cursor % BLOCK_SIZE
        n       == Min(BLOCK_SIZE - offset, Len(rest))
        from    == block_ref * BLOCK_SIZE + offset
    IN  IF st1.panic \/ from + n > Len(st1.blocks) THEN [st1 EXCEPT !.panic = TRUE]
        ELSE WriteLoop([st1 EXCEPT
                          !.blocks = CopyFromSlice(@, from, SubSeq(rest, 1, n)),
                          !.cursor = @ + n],
                       SubSeq(rest, n + 1, Len(rest)))

write(v, oid, data) ==
    IF oid \notin DOMAIN v.open_fds THEN Err(v, "BadFileDescriptor")
    ELSE LET id == v.open_fds[oid][1]
             fd == Fd(v, id)
         IN  IF ~is_file(fd) THEN Panic(v)
             ELSE
             LET st == WriteLoop([blocks |-> v.blocks, blocks_refs |-> fd.blocks_refs,
                                  blocks_id |-> v.blocks_id,
                                  cursor |-> v.open_fds[oid][2], panic |-> FALSE], data)
             IN  IF st.panic THEN Panic(v)
                 ELSE Ok([v EXCEPT !.blocks = st.blocks,
                                   !.blocks_id = st.blocks_id,
                                   !.fds[id + 1].blocks_refs = st.blocks_refs,
                                   !.fds[id + 1].size = Max(@, st.cursor),
                                   !.open_fds[oid] = <<id, st.cursor>>],
                         <<Len(data)>>)

\* the while loop of Vfs::read: the bytes read, the cursor afterwards
RECURSIVE ReadLoop(_, _, _, _, _)
ReadLoop(v, blocks_refs, cursor, rest, data) ==
    IF rest = 0 THEN [panic |-> FALSE, data |-> data, cursor |-> cursor]
    ELSE
    LET i      == cursor \div BLOCK_SIZE
        offset == cursor % BLOCK_SIZE
        n      == Min(BLOCK_SIZE - offset, rest)
    IN  IF i >= Len(blocks_refs) THEN [panic |-> TRUE, data |-> data, cursor |-> cursor]
        ELSE LET from == At(blocks_refs, i) * BLOCK_SIZE + offset
             IN  IF from + n > Len(v.blocks)
                 THEN [panic |-> TRUE, data |-> data, cursor |-> cursor]
                 ELSE ReadLoop(v, blocks_refs, cursor + n, rest - n,
                               data \o SubSeq(v.blocks, from + 1, from + n))

read(v, oid, size, wrap) ==
    IF oid \notin DOMAIN v.open_fds THEN Err(v, "BadFileDescriptor")
    ELSE LET id     == v.open_fds[oid][1]
             cursor == v.open_fds[oid][2]
             fd     == Fd(v, id)
             avail  == Sub(fd.size, cursor, wrap)
         IN  IF ~is_file(fd) \/ avail < 0 THEN Panic(v)
             ELSE LET got == ReadLoop(v, fd.blocks_refs, cursor, Min(size, avail), <<>>)
                  IN  IF got.panic THEN Panic(v)
                      ELSE Ok([v EXCEPT !.open_fds[oid] = <<id, got.cursor>>], got.data)

\* blocks[from..to].fill(0)
FillZero(blocks, from, to) ==
    [k \in 1..Len(blocks) |-> IF k - 1 >= from /\ k - 1 < to THEN 0 ELSE blocks[k]]

\* Vec::resize(new_len, 0)
Resize(vec, new_len) ==
    IF new_len <= Len(vec) THEN SubSeq(vec, 1, new_len)
    ELSE vec \o Fill(new_len - Len(vec), 0)

\* the cursor clamp of a shrinking truncate
ClampCursors(open_fds, id, size) ==
    [o \in DOMAIN open_fds |->
        IF open_fds[o][1] = id THEN <<id, Min(open_fds[o][2], size)>> ELSE open_fds[o]]

\* a shrink that keeps floor(size / BLOCK_SIZE) blocks (a variant of
\* TruncateLess)
TruncateLessFloor(v, id, size) ==
    LET fd == Fd(v, id)
        i  == size \div BLOCK_SIZE
    IN  IF i > Len(fd.blocks_refs) THEN Panic(v)
        ELSE Ok([v EXCEPT
                   !.blocks_id = FreeBlocks(@, SubSeq(fd.blocks_refs, i + 1,
                                                      Len(fd.blocks_refs))),
                   !.fds[id + 1].blocks_refs = SubSeq(@, 1, i),
                   !.fds[id + 1].size = size,
                   !.open_fds = IF fd.refs # 0 THEN ClampCursors(@, id, size) ELSE @],
                <<>>)

TruncateLess(v, id, size) ==
    LET fd == Fd(v, id)
        i  == (size + BLOCK_SIZE - 1) \div BLOCK_SIZE
    IN  IF i > Len(fd.blocks_refs) THEN Panic(v)
        ELSE Ok([v EXCEPT
                   !.blocks_id = FreeBlocks(@, SubSeq(fd.blocks_refs, i + 1,
                                                      Len(fd.blocks_refs))),
                   !.fds[id + 1].blocks_refs = SubSeq(@, 1, i),
                   !.fds[id + 1].size = size,
                   !.open_fds = IF fd.refs # 0 THEN ClampCursors(@, id, size) ELSE @],
                <<>>)

\* size + BLOCK_SIZE - 1 is computed in usize: past USIZE_MAX a build with
\* overflow checks panics at the addition, and a build without them wraps to
\* a new_len of 0 and then panics at blocks_refs[j]
TruncateGreater(v, id, size) ==
    LET fd          == Fd(v, id)
        new_len     == ((size + BLOCK_SIZE - 1) % (USIZE_MAX + 1)) \div BLOCK_SIZE
        blocks_refs == Resize(fd.blocks_refs, new_len)
        j           == fd.size \div BLOCK_SIZE
    IN  IF j >= Len(blocks_refs) THEN Panic(v)
        ELSE
        LET block_ref == At(blocks_refs, j)
            offset    == fd.size % BLOCK_SIZE
            n         == Min(BLOCK_SIZE - offset, size - fd.size)
            from      == block_ref * BLOCK_SIZE + offset
        IN  IF block_ref # 0 /\ from + n > Len(v.blocks) THEN Panic(v)
            ELSE Ok([v EXCEPT
                       !.blocks = IF block_ref # 0 THEN FillZero(@, from, from + n)
                                  ELSE @,
                       !.fds[id + 1].blocks_refs = blocks_refs,
                       !.fds[id + 1].size = size],
                    <<>>)

truncate(v, pathname, size) ==
    LET r == resolve(v, pathname)
    IN  IF r.kind = "panic" THEN Panic(v)
        ELSE IF r.kind = "None" THEN Err(v, "NotFound")
        ELSE IF ~is_file(Fd(v, r.id)) THEN Err(v, "OperationNotPermitted")
        ELSE IF size < Fd(v, r.id).size THEN TruncateLess(v, r.id, size)
        ELSE IF size > Fd(v, r.id).size THEN TruncateGreater(v, r.id, size)
        ELSE Ok(v, <<>>)

\* Vfs::ls: the sorted names are the set of names
ls(v, pathname) ==
    LET r == resolve(v, pathname)
    IN  IF r.kind = "panic" THEN Panic(v)
        ELSE IF r.kind = "None" THEN Err(v, "NotFound")
        ELSE IF is_dir(Fd(v, r.id)) THEN Ok(v, DOMAIN Fd(v, r.id).entries)
        ELSE Ok(v, {pathname})


\* ------------------------------------------------------------------ state
VARIABLES
    blocks,       \* Vfs.blocks: the block store, a sequence of bytes
    fds,          \* Vfs.fds: the inode arena
    open_fds,     \* Vfs.open_fds: open id -> <<inode id, cursor>>
    blocks_id,    \* Vfs.blocks_id: the block allocator
    fds_id,       \* Vfs.fds_id: the inode allocator
    open_fds_id,  \* Vfs.open_fds_id: the open-handle allocator
    cwd_id,       \* Vfs.cwd_id
    cwd,          \* Vfs.cwd
    last,         \* the last call: its name, the kind of its result, its value
                  \* (and its pathname, for the calls that only read)
    panicked,     \* a call panicked: the process is gone
    steps,        \* the number of calls made so far
    walk          \* the walk of resolve or realpath in progress: the locals
                  \* of its loop (Idle between calls)

vars == <<blocks, fds, open_fds, blocks_id, fds_id, open_fds_id, cwd_id, cwd,
          last, panicked, steps, walk>>

\* no walk is in progress
Idle ==
    [op |-> "idle", pathname |-> <<>>, fd |-> 0, realpath |-> <<>>,
     segments |-> <<>>, symlink_resolve_count |-> 0]

Self ==
    [blocks |-> blocks, fds |-> fds, open_fds |-> open_fds,
     blocks_id |-> blocks_id, fds_id |-> fds_id, open_fds_id |-> open_fds_id,
     cwd_id |-> cwd_id, cwd |-> cwd]

\* the next state after a call that returned r
ReturnsFor(op, arg, r) ==
    /\ ~panicked
    /\ walk = Idle
    /\ walk' = walk
    /\ steps' = steps + 1
    /\ blocks' = r.v.blocks
    /\ fds' = r.v.fds
    /\ open_fds' = r.v.open_fds
    /\ blocks_id' = r.v.blocks_id
    /\ fds_id' = r.v.fds_id
    /\ open_fds_id' = r.v.open_fds_id
    /\ cwd_id' = r.v.cwd_id
    /\ cwd' = r.v.cwd
    /\ last' = [op |-> op, arg |-> arg, res |-> r.res, out |-> r.out]
    /\ panicked' = (r.res = "panic")

\* a call whose arguments the history does not keep
Returns(op, r) == ReturnsFor(op, <<>>, r)

Init ==
    /\ blocks = VfsNew.blocks
    /\ fds = VfsNew.fds
    /\ open_fds = VfsNew.open_fds
    /\ blocks_id = VfsNew.blocks_id
    /\ fds_id = VfsNew.fds_id
    /\ open_fds_id = VfsNew.open_fds_id
    /\ cwd_id = VfsNew.cwd_id
    /\ cwd = VfsNew.cwd
    /\ last = [op |-> "new", arg |-> <<>>, res |-> "Ok", out |-> <<>>]
    /\ panicked = FALSE
    /\ steps = 0
    /\ walk = Idle

\* ----------------------------------------------------------------- inputs
Paths == { <<"/", "f">>, <<"/", "f", "/">>, <<"/", "g">>, <<"/", "d">> }

Targets == { <<"/", "f">> }

Datas == { <<1>>, <<2, 2, 2>> }

Sizes == {0, 1, 3}

\* the sizes truncate is called with: the largest usize too
TruncateSizes == Sizes \cup {USIZE_MAX}

Oids == 0 .. (MaxOpen - 1)

\* the model's room for one more handle
CanOpen == Cardinality(DOMAIN open_fds) < MaxOpen

\* ---------------------------------------------------------------- actions
\* the run has made fewer than budget calls
Within(budget) == steps < budget

Mkdir(p) == Returns("mkdir", mkdir(Self, p))

Rmdir(p) ==
    \E name \in (IF RmdirNames(Self, p) = {} THEN {<<>>} ELSE RmdirNames(Self, p)) :
        Returns("rmdir", rmdir(Self, p, name))

Create(p) == Returns("create", create(Self, p))

Symlink(t, p) == Returns("symlink", symlink(Self, t, p))

Link(p1, p2) == Returns("link", link(Self, p1, p2))

Unlink(p) == \E wrap \in BOOLEAN : Returns("unlink", unlink(Self, p, wrap))

Open(p) == CanOpen /\ Returns("open", open(Self, p))

Close(oid) == \E wrap \in BOOLEAN : Returns("close", close(Self, oid, wrap))

Seek(oid, offset) == Returns("seek", seek(Self, oid, offset))

Write(oid, data) == Returns("write", write(Self, oid, data))

Read(oid, size) == \E wrap \in BOOLEAN : Returns("read", read(Self, oid, size, wrap))

Truncate(p, size) == Returns("truncate", truncate(Self, p, size))

Cd(p) == Returns("cd", cd(Self, p))

Stat(p) == ReturnsFor("stat", p, stat(Self, p))

Ls(p) == ReturnsFor("ls", p, ls(Self, p))

\* Vfs::realpath as a call: the Option is Ok with the path, or NotFound
RealpathCall(v, pathname) ==
    LET rp == realpath(v, pathname)
    IN  IF rp.kind = "panic" THEN Panic(v)
        ELSE IF rp.kind = "None" THEN Err(v, "NotFound")
        ELSE Ok(v, rp.path)

Realpath(p) == ReturnsFor("realpath", p, RealpathCall(Self, p))

Next ==
    \/ \E p \in Paths : Within(MaxOps) /\ Mkdir(p)
    \/ \E p \in Paths : Within(MaxOps) /\ Rmdir(p)
    \/ \E p \in Paths : Within(MaxOps) /\ Create(p)
    \/ \E t \in Targets, p \in Paths : Within(MaxOps) /\ Symlink(t, p)
    \/ \E p1 \in Paths, p2 \in Paths : Within(MaxOps) /\ Link(p1, p2)
    \/ \E p \in Paths : Within(MaxOps) /\ Unlink(p)
    \/ \E p \in Paths : Within(MaxOps) /\ Open(p)
    \/ \E oid \in Oids : Within(MaxOps) /\ Close(oid)
    \/ \E oid \in Oids, offset \in Sizes : Within(MaxOps) /\ Seek(oid, offset)
    \/ \E oid \in Oids, data \in Datas : Within(MaxOps) /\ Write(oid, data)
    \/ \E oid \in Oids, size \in Sizes : Within(MaxOps) /\ Read(oid, size)
    \/ \E p \in Paths, size \in TruncateSizes : Within(MaxOps) /\ Truncate(p, size)
    \/ \E p \in Paths : Within(MaxOps) /\ Cd(p)
    \/ \E p \in Paths : Within(MaxOps) /\ Stat(p)
    \/ \E p \in Paths : Within(MaxOps) /\ Ls(p)

Spec == Init /\ [][Next]_vars

\* the file operations alone, on one file reached by two pathnames
FilePaths == { <<"/", "f">>, <<"/", "f", "/">> }

NextFile ==
    \/ \E p \in FilePaths : Within(MaxFileOps) /\ Create(p)
    \/ \E p \in FilePaths : Within(MaxFileOps) /\ Unlink(p)
    \/ \E p \in FilePaths : Within(MaxFileOps) /\ Open(p)
    \/ \E oid \in Oids : Within(MaxFileOps) /\ Close(oid)
    \/ \E oid \in Oids, offset \in Sizes : Within(MaxFileOps) /\ Seek(oid, offset)
    \/ \E oid \in Oids, data \in Datas : Within(MaxFileOps) /\ Write(oid, data)
    \/ \E oid \in Oids, size \in Sizes : Within(MaxFileOps) /\ Read(oid, size)
    \/ \E p \in FilePaths, size \in Sizes : Within(MaxFileOps) /\ Truncate(p, size)

SpecFile == Init /\ [][NextFile]_vars

\* the resolver: a directory /a holding a file x, and the symlinks
\* /k -> /a, /l -> /l (a loop) and /s -> . (the root under another name)
RECURSIVE Rep(_, _)
Rep(k, str) == IF k = 0 THEN <<>> ELSE str \o Rep(k - 1, str)

\* /s/s/../s/a with k times /s: a walk of k symlink expansions
SPath(k) == Rep(k, <<"/", "s">>) \o <<"/", "a">>

SymlinkPairs ==
    { << <<"/", "l">>, <<"/", "l">> >>,
      << <<"/", "a">>, <<"/", "k">> >>,
      << <<".">>,      <<"/", "s">> >> }

MkdirPaths == { <<"/", "a">> }

CreatePaths == { <<"/", "a", "/", "x">>, <<"/", "k", "/", "x">> }

ResolvePaths ==
    { <<"/", "l">>, <<"/", "l", "/", "x">>, <<"/", "k">>, <<"/", "k", "/", "x">>,
      <<"/", "a", "/", "x">>, <<"/", "s">>,
      SPath(SYMLINK_RESOLVE_LIMIT - 1), SPath(SYMLINK_RESOLVE_LIMIT),
      SPath(SYMLINK_RESOLVE_LIMIT + 1) }

NextResolve ==
    \/ \E tp \in SymlinkPairs : Within(MaxResolveOps) /\ Symlink(tp[1], tp[2])
    \/ \E p \in MkdirPaths : Within(MaxResolveOps) /\ Mkdir(p)
    \/ \E p \in CreatePaths : Within(MaxResolveOps) /\ Create(p)
    \/ \E p \in ResolvePaths : Within(MaxResolveOps) /\ Stat(p)
    \/ \E p \in ResolvePaths : Within(MaxResolveOps) /\ Realpath(p)

SpecResolve == Init /\ [][NextResolve]_vars

\* files and handles over an inode arena whose slots are reused: create,
\* unlink and mkdir allocate and free inode ids while handles stay open
ReusePaths == { <<"/", "f">>, <<"/", "f", "/">>, <<"/", "g">> }

ReuseDirs == { <<"/", "d">> }

ReuseDatas == { <<2, 2, 2>> }

NextReuse ==
    \/ \E p \in ReusePaths : Within(MaxReuseOps) /\ Create(p)
    \/ \E p \in ReusePaths : Within(MaxReuseOps) /\ Unlink(p)
    \/ \E p \in ReusePaths : Within(MaxReuseOps) /\ Open(p)
    \/ \E oid \in Oids : Within(MaxReuseOps) /\ Close(oid)
    \/ \E oid \in Oids, data \in ReuseDatas : Within(MaxReuseOps) /\ Write(oid, data)
    \/ \E p \in ReuseDirs : Within(MaxReuseOps) /\ Mkdir(p)

SpecReuse == Init /\ [][NextReuse]_vars

\* the directory tree: /d and /d/e made, entered and removed by absolute
\* and relative pathnames, pathnames that end in "." and "..", and a file
\* /f and a symlink /k -> /d made and unlinked beside them
DirPaths ==
    { <<"/", "d">>, <<"/", "d", "/", "e">>, <<"/", "d", "/", ".">>,
      <<"/", "d", "/", ".", ".">>, <<".">>, <<"e">>, <<"/">> }

DirFilePaths == { <<"/", "f">>, <<"/", "d", "/", ".">> }

DirUnlinkPaths ==
    { <<"/", "f">>, <<"/", "k", "/">>, <<"/", "d", "/", ".">> }

DirSymlinkPairs ==
    { << <<"/", "d">>, <<"/", "k">> >>,
      << <<"/", "d">>, <<"/", "d", "/", ".", ".">> >> }

DirLinkPairs ==
    { << <<"/", "f">>, <<"/", "d", "/", "g">> >>,
      << <<"/", "f">>, <<"/", "d", "/", ".">> >> }

DirCdPaths == { <<"/", "d">>, <<"e">>, <<"/", "k">> }

NextDir ==
    \/ \E p \in DirPaths : Within(MaxDirOps) /\ Mkdir(p)
    \/ \E p \in DirPaths : Within(MaxDirOps) /\ Rmdir(p)
    \/ \E p \in DirCdPaths : Within(MaxDirOps) /\ Cd(p)
    \/ \E p \in DirFilePaths : Within(MaxDirOps) /\ Create(p)
    \/ \E p \in DirUnlinkPaths : Within(MaxDirOps) /\ Unlink(p)
    \/ \E tp \in DirSymlinkPairs : Within(MaxDirOps) /\ Symlink(tp[1], tp[2])
    \/ \E pp \in DirLinkPairs : Within(MaxDirOps) /\ Link(pp[1], pp[2])
    \/ \E p \in DirPaths : Within(MaxDirOps) /\ Realpath(p)

SpecDir == Init /\ [][NextDir]_vars


\* the walks of resolve and realpath taken one loop iteration at a time,
\* over symlinks that refer to themselves (/l -> /l, /a/w -> /a/../a/w), to
\* each other (/m -> /n, /n -> /m) and to "." (/s -> .)
WalkSymlinkPairs ==
    { << <<"/", "l">>, <<"/", "l">> >>,
      << <<"/", "n">>, <<"/", "m">> >>,
      << <<"/", "m">>, <<"/", "n">> >>,
      << <<".">>,      <<"/", "s">> >>,
      << <<"/", "a", "/", ".", ".", "/", "a", "/", "w">>, <<"/", "a", "/", "w">> >> }

WalkMkdirPaths == { <<"/", "a">> }

WalkCdPaths == { <<"/", "a">>, <<"/", "s">> }

WalkPaths ==
    { <<"/", "l", "/", "x">>, <<"/", "m", "/", "x">>, <<"/", "m">>,
      <<"/", "a", "/", "w", "/", "x">>, <<"w", "/", ".", ".">>,
      <<"/", "s", "/", "s", "/", ".", ".", "/", "a">>, <<"s", "/", ".", "/", "s">>,
      <<"/">>, <<>> }

\* a call enters the loop of Vfs::resolve
ResolveStart(p) ==
    /\ ~panicked
    /\ walk = Idle
    /\ walk' = [op |-> "resolve", pathname |-> p,
                fd |-> IF is_absolute(p) THEN root ELSE cwd_id,
                realpath |-> <<>>,
                segments |-> segmentize(p, TRUE),
                symlink_resolve_count |-> 0]
    /\ steps' = steps + 1
    /\ UNCHANGED <<blocks, fds, open_fds, blocks_id, fds_id, open_fds_id,
                   cwd_id, cwd, last, panicked>>

\* one iteration of the loop of Vfs::resolve
ResolveIter ==
    /\ walk.op = "resolve"
    /\ IF ResolveReturns(Self, walk.fd, walk.segments, walk.symlink_resolve_count)
       THEN LET r == ResolveLoop(Self, walk.fd, walk.segments,
                                 walk.symlink_resolve_count, SYMLINK_RESOLVE_LIMIT)
            IN  /\ walk' = Idle
                /\ last' = [op |-> "resolve", arg |-> walk.pathname,
                            res |-> r.kind,
                            out |-> IF r.kind = "Some"
                                    THEN <<r.id, r.parent_id>> ELSE <<>>]
                /\ panicked' = (r.kind = "panic")
       ELSE /\ walk' = ResolveIteration(Self, walk)
            /\ UNCHANGED <<last, panicked>>
    /\ UNCHANGED <<blocks, fds, open_fds, blocks_id, fds_id, open_fds_id,
                   cwd_id, cwd, steps>>

\* a call enters the loop of Vfs::realpath
RealpathStart(p) ==
    /\ ~panicked
    /\ walk = Idle
    /\ walk' = [op |-> "realpath", pathname |-> p,
                fd |-> IF is_absolute(p) THEN root ELSE cwd_id,
                realpath |-> IF is_absolute(p) THEN <<>>
                             ELSE segmentize(cwd, FALSE),
                segments |-> segmentize(p, TRUE),
                symlink_resolve_count |-> 0]
    /\ steps' = steps + 1
    /\ UNCHANGED <<blocks, fds, open_fds, blocks_id, fds_id, open_fds_id,
                   cwd_id, cwd, last, panicked>>

\* one iteration of the loop of Vfs::realpath
RealpathIter ==
    /\ walk.op = "realpath"
    /\ IF RealpathReturns(Self, walk.fd, walk.segments, walk.symlink_resolve_count)
       THEN LET rp == RealpathLoop(Self, walk.fd, walk.realpath, walk.segments,
                                   walk.symlink_resolve_count, SYMLINK_RESOLVE_LIMIT)
            IN  /\ walk' = Idle
                /\ last' = [op |-> "realpath", arg |-> walk.pathname,
                            res |-> IF rp.kind = "Some" THEN "Ok"
                                    ELSE IF rp.kind = "None" THEN "NotFound"
                                    ELSE "panic",
                            out |-> rp.path]
                /\ panicked' = (rp.kind = "panic")
       ELSE /\ walk' = RealpathIteration(Self, walk)
            /\ UNCHANGED <<last, panicked>>
    /\ UNCHANGED <<blocks, fds, open_fds, blocks_id, fds_id, open_fds_id,
                   cwd_id, cwd, steps>>

NextWalk ==
    \/ \E tp \in WalkSymlinkPairs : Within(MaxWalkOps) /\ Symlink(tp[1], tp[2])
    \/ \E p \in WalkMkdirPaths : Within(MaxWalkOps) /\ Mkdir(p)
    \/ \E p \in WalkCdPaths : Within(MaxWalkOps) /\ Cd(p)
    \/ \E p \in WalkPaths : Within(MaxWalkOps) /\ ResolveStart(p)
    \/ ResolveIter
    \/ \E p \in WalkPaths : Within(MaxWalkOps) /\ RealpathStart(p)
    \/ RealpathIter

\* a loop in progress takes its next iteration: the walk is straight-line
\* code of one thread
SpecWalk ==
    /\ Init
    /\ [][NextWalk]_vars
    /\ WF_vars(ResolveIter)
    /\ WF_vars(RealpathIter)


\* ------------------------------------------------------------ properties
InodeIds == 0 .. (Len(fds) - 1)

\* the (directory, name) entries whose value is the inode id
EntriesNaming(v, id) ==
    {dn \in UNION {{<<d, n>> : n \in DOMAIN Fd(v, d).entries} :
                      d \in {x \in 0 .. (Len(v.fds) - 1) : is_dir(Fd(v, x))}} :
        Fd(v, dn[1]).entries[dn[2]] = id}

\* the inode ids the open handles refer to
OpenInodes(v) == {v.open_fds[o][1] : o \in DOMAIN v.open_fds}

\* the non-zero block ids of an inode
NonZeroBlocks(fd) == {fd.blocks_refs[k] : k \in 1..Len(fd.blocks_refs)} \ {0}

\* the last segment of a pathname, the name the resolver looks up last
LastSegment(pathname) ==
    LET segs == segmentize(pathname, FALSE)
    IN  IF segs = <<>> THEN DOT ELSE segs[Len(segs)]

\* C1: whenever a pathname p resolves to a non-directory inode i held in
\* directory d, unlink(p) returns Ok, the entry of d through which p resolved
\* is gone (d has exactly one entry fewer) and links(i) is exactly one less.
C1_UnlinkRemovesEntry ==
    \A p \in Paths, wrap \in BOOLEAN :
        LET r == resolve(Self, p)
        IN  (~panicked /\ r.kind = "Some" /\ ~is_dir(Fd(Self, r.id))) =>
                LET u == unlink(Self, p, wrap)
                IN  /\ u.res = "Ok"
                    /\ LastSegment(p) \notin DOMAIN Fd(u.v, r.parent_id).entries
                    /\ Cardinality(DOMAIN Fd(u.v, r.parent_id).entries)
                         = Cardinality(DOMAIN Fd(Self, r.parent_id).entries) - 1
                    /\ Fd(u.v, r.id).links = Fd(Self, r.id).links - 1

\* C2: no inode id that is the value of an entry of a directory is in the
\* free set of the inode allocator.
C2_NamedInodesNotFree ==
    \A d \in InodeIds :
        is_dir(Fd(Self, d)) =>
            \A n \in DOMAIN Fd(Self, d).entries :
                Fd(Self, d).entries[n] \notin fds_id.free

\* C3: the links field of every regular-file or symlink inode that an entry
\* names or an open handle refers to equals the number of (directory, name)
\* entries whose value is its id.
C3_LinksCountEntries ==
    \A id \in InodeIds :
        (/\ ~is_dir(Fd(Self, id))
         /\ (EntriesNaming(Self, id) # {} \/ id \in OpenInodes(Self)))
        => Fd(Self, id).links = Cardinality(EntriesNaming(Self, id))

\* C4: a regular file that has an open handle and no directory entry left
\* (unlink removed the last one) stays live: its inode id and its non-zero
\* blocks are in no free set, every read, write and seek to a valid offset on
\* the handle returns Ok, and the close of its last handle puts the inode id
\* and its non-zero block ids into the free sets.
C4_UnlinkedOpenFileLives ==
    \A o \in DOMAIN open_fds :
        LET id == open_fds[o][1]
            fd == Fd(Self, id)
        IN  (~panicked /\ is_file(fd) /\ EntriesNaming(Self, id) = {}) =>
                /\ id \notin fds_id.free
                /\ NonZeroBlocks(fd) \cap blocks_id.free = {}
                /\ \A n \in Sizes, wrap \in BOOLEAN : read(Self, o, n, wrap).res = "Ok"
                /\ \A data \in Datas : write(Self, o, data).res = "Ok"
                /\ \A off \in Sizes : off <= fd.size => seek(Self, o, off).res = "Ok"
                /\ (\A o2 \in DOMAIN open_fds : open_fds[o2][1] = id => o2 = o) =>
                       \A wrap \in BOOLEAN :
                           LET c == close(Self, o, wrap)
                           IN  /\ c.res = "Ok"
                               /\ id \in c.v.fds_id.free
                               /\ NonZeroBlocks(fd) \subseteq c.v.blocks_id.free

\* C5: after rmdir(p) returns Ok for a directory inode d, no entry of d's
\* parent names d, d's id is in the free set of the inode allocator, and the
\* next inode allocation reuses that id.
C5_RmdirFreesInode ==
    \A p \in Paths :
        \A name \in (IF RmdirNames(Self, p) = {} THEN {<<>>} ELSE RmdirNames(Self, p)) :
            LET r == resolve(Self, p)
                u == rmdir(Self, p, name)
            IN  (~panicked /\ u.res = "Ok") =>
                    /\ \A n \in DOMAIN Fd(u.v, r.parent_id).entries :
                           n \notin {DOT, DOTDOT} =>
                               Fd(u.v, r.parent_id).entries[n] # r.id
                    /\ r.id \in u.v.fds_id.free
                    /\ IdentityNext(u.v.fds_id).id = r.id

\* C6: block id 0 is never in the free set of the block allocator, so the
\* block allocator never hands block 0 to a write.
C6_BlockZeroNeverFree ==
    /\ 0 \notin blocks_id.free
    /\ IdentityNext(blocks_id).id # 0

\* C7: for a regular file p of size prev_size, truncate(p, k) returns Ok and
\* leaves the size k; when k >= prev_size, the bytes [prev_size, k) read
\* through any open handle of the file are all 0.
C7_TruncateSizeAndZeroFill ==
    \A p \in FilePaths, k \in Sizes :
        LET r == resolve(Self, p)
        IN  (~panicked /\ r.kind = "Some" /\ is_file(Fd(Self, r.id))) =>
                LET prev_size == Fd(Self, r.id).size
                    t         == truncate(Self, p, k)
                IN  /\ t.res = "Ok"
                    /\ Fd(t.v, r.id).size = k
                    /\ k >= prev_size =>
                          \A o \in DOMAIN t.v.open_fds, wrap \in BOOLEAN :
                              t.v.open_fds[o][1] = r.id =>
                                  LET s  == seek(t.v, o, prev_size)
                                      rd == read(s.v, o, k - prev_size, wrap)
                                  IN  /\ s.res = "Ok"
                                      /\ rd.res = "Ok"
                                      /\ rd.out = Fill(k - prev_size, 0)

\* open p, write data, seek 0, read n, run from the current state: the
\* results of the four calls
WriteSeekRead(p, data, n, wrap) ==
    LET o  == open(Self, p)
        h  == IF o.res = "Ok" THEN o.out[1] ELSE 0
        w  == write(o.v, h, data)
        s  == seek(w.v, h, 0)
        rd == read(s.v, h, n, wrap)
    IN  [o |-> o, w |-> w, s |-> s, rd |-> rd]

IsLinkTo(v, name, target) ==
    /\ name \in DOMAIN Fd(v, root).entries
    /\ is_symlink(Fd(v, Fd(v, root).entries[name]))
    /\ Fd(v, Fd(v, root).entries[name]).path = target

C10_AtMostEightExpansions ==
    \A p \in ResolvePaths :
        LET r    == resolve(Self, p)
            ref  == ResolveWithin(Self, p, RefLimit)
            rp   == realpath(Self, p)
            refp == RealpathWithin(Self, p, RefLimit)
        IN  ~panicked =>
                /\ r.hops <= 8 /\ rp.hops <= 8
                /\ (ref.kind = "Some" /\ ref.hops <= 8) => r = ref
                /\ (ref.cut \/ ref.hops > 8) => r.kind = "None"
                /\ (refp.kind = "Some" /\ refp.hops <= 8) => rp = refp
                /\ (refp.cut \/ refp.hops > 8) => rp.kind = "None"
                /\ (r.kind = "Some" /\ ~is_symlink(Fd(Self, r.id))) =>
                       /\ rp.kind = "Some"
                       /\ rp.hops = r.hops
                       /\ resolve(Self, rp.path).kind = "Some"
                       /\ resolve(Self, rp.path).id = r.id
                       /\ resolve(Self, rp.path).hops = 0

\* stat has just failed on the pathname of 9 expansions while the pathname
\* of 8 expansions resolves to the directory /a
C10_NinthExpansionRefused ==
    /\ last.op = "stat" /\ last.arg = SPath(9) /\ last.res = "NotFound"
    /\ resolve(Self, SPath(8)).kind = "Some"
    /\ resolve(Self, SPath(8)).hops = 8
    /\ resolve(Self, SPath(8)).id = resolve(Self, <<"/", "a">>).id

\* C11: no call of a public operation panics: every call returns a success
\* value or an error value.
C11_NoCallPanics == ~panicked /\ last.res # "panic"

\* the number of handles of the open-handle table that refer to inode id
HandlesOf(v, id) == Cardinality({o \in DOMAIN v.open_fds : v.open_fds[o][1] = id})

\* C12: for every inode i, refs(i) is the number of entries of the
\* open-handle table whose inode id is i (so refs = 0 for every inode when
\* no handle is open).
C12_RefsCountHandles ==
    \A id \in InodeIds : Fd(Self, id).refs = HandlesOf(Self, id)

\* C13: every entry (inode id, cursor) of the open-handle table has
\* cursor <= size(inode).
C13_CursorWithinSize ==
    \A o \in DOMAIN open_fds : open_fds[o][2] <= Fd(Self, open_fds[o][1]).size

\* ceil(size / BLOCK_SIZE)
BlocksFor(size) == (size + BLOCK_SIZE - 1) \div BLOCK_SIZE

\* C14: after every operation returns, every regular inode has
\* |blocks_refs| = ceil(size / BLOCK_SIZE).
C14_BlockRefsCoverSize ==
    \A id \in InodeIds :
        is_file(Fd(Self, id)) =>
            Len(Fd(Self, id).blocks_refs) = BlocksFor(Fd(Self, id).size)

\* a truncate has just shrunk an open file with written data to a size
\* inside its first block: the block is kept and still holds a written byte
\* past the new size
C14_ShrunkInsideBlock ==
    /\ last.op = "truncate" /\ last.res = "Ok"
    /\ \E id \in OpenInodes(Self) :
           /\ is_file(Fd(Self, id))
           /\ Fd(Self, id).size = 1
           /\ Len(Fd(Self, id).blocks_refs) = 1
           /\ Fd(Self, id).blocks_refs[1] # 0
           /\ At(blocks, Fd(Self, id).blocks_refs[1] * BLOCK_SIZE + 1) # 0

\* the directories that hold an entry other than "." and ".." naming id
Holders(v, id) ==
    {d \in 0 .. (Len(v.fds) - 1) :
        /\ is_dir(Fd(v, d))
        /\ \E n \in DOMAIN Fd(v, d).entries \ {DOT, DOTDOT} :
               Fd(v, d).entries[n] = id}

\* the inodes a walk from the root reaches through entries of directories
RECURSIVE ReachFrom(_, _)
ReachFrom(v, seen) ==
    LET more == UNION {{Fd(v, d).entries[n] : n \in DOMAIN Fd(v, d).entries} :
                          d \in {x \in seen : is_dir(Fd(v, x))}} \ seen
    IN  IF more = {} THEN seen
        ELSE ReachFrom(v, seen \cup {x \in more : InRange(v.fds, x)})

\* C15: every directory inode d reachable from the root has
\* entries["."] = id(d) and entries[".."] = the id of the directory whose
\* entries contain d (the root has both equal to 0).
C15_DotAndDotDot ==
    \A d \in ReachFrom(Self, {root}) :
        is_dir(Fd(Self, d)) =>
            /\ DOT \in DOMAIN Fd(Self, d).entries
            /\ DOTDOT \in DOMAIN Fd(Self, d).entries
            /\ Fd(Self, d).entries[DOT] = d
            /\ d = root => Fd(Self, d).entries[DOTDOT] = 0
            /\ \A h \in Holders(Self, d) : Fd(Self, d).entries[DOTDOT] = h

\* the child directories of directory d
ChildDirs(v, d) ==
    {n \in DOMAIN Fd(v, d).entries \ {DOT, DOTDOT} :
        is_dir(Fd(v, Fd(v, d).entries[n]))}

\* C16: the links field of every directory is 1 plus the number of its
\* child directories.
C16_DirLinksCountChildren ==
    \A d \in InodeIds :
        (is_dir(Fd(Self, d)) /\ d \in ReachFrom(Self, {root})) =>
            Fd(Self, d).links = 1 + Cardinality(ChildDirs(Self, d))

\* C17: every inode whose id is in the free set of the inode allocator has
\* links = 0 and refs = 0: an id enters the free set only with both counts
\* zero and no operation raises the counts of a freed inode.
C17_FreedInodesHaveNoCounts ==
    \A id \in fds_id.free :
        InRange(fds, id) => Fd(Self, id).links = 0 /\ Fd(Self, id).refs = 0

\* C18: no non-zero block id in the blocks_refs of a regular inode that a
\* directory entry names or an open handle refers to is in the free set of
\* the block allocator.
C18_LiveBlocksNotFree ==
    \A id \in InodeIds :
        (/\ is_file(Fd(Self, id))
         /\ (EntriesNaming(Self, id) # {} \/ id \in OpenInodes(Self)))
        => NonZeroBlocks(Fd(Self, id)) \cap blocks_id.free = {}

\* C19: for every absolute or relative pathname p for which realpath(p)
\* returns a path r, realpath(r) also returns r.
C19_RealpathIdempotent ==
    \A p \in DirPaths \cup DirCdPaths :
        LET rp == realpath(Self, p)
        IN  (~panicked /\ rp.kind = "Some") =>
                /\ realpath(Self, rp.path).kind = "Some"
                /\ realpath(Self, rp.path).path = rp.path

\* the result rmdir(p) must have by the state p resolves in
RmdirExpected(v, pathname) ==
    LET r == resolve(v, pathname)
    IN  IF r.kind = "None" THEN "NotFound"
        ELSE IF r.id = 0 THEN "IsARootDirectory"
        ELSE IF ~is_dir(Fd(v, r.id)) THEN "NotADirectory"
        ELSE IF DOMAIN Fd(v, r.id).entries # {DOT, DOTDOT} THEN "DirectoryNotEmpty"
        ELSE "Ok"

\* C20: rmdir(p) returns Ok only when p resolves to a directory that is not
\* the root and whose entries are exactly "." and ".."; it fails with
\* IsARootDirectory on the root, NotADirectory on a non-directory,
\* DirectoryNotEmpty on a directory with other entries and NotFound on an
\* unresolvable path.  On Ok the only directory entry removed is one entry
\* of the parent that named the removed directory, and cwd_id becomes 0 if
\* the removed directory was the working directory (and is unchanged if not).
C20_RmdirContract ==
    \A p \in DirPaths \cup DirFilePaths \cup DirCdPaths :
        \A name \in (IF RmdirNames(Self, p) = {} THEN {<<>>} ELSE RmdirNames(Self, p)) :
            LET r == resolve(Self, p)
                u == rmdir(Self, p, name)
            IN  ~panicked =>
                    /\ u.res = RmdirExpected(Self, p)
                    /\ u.res = "Ok" =>
                          /\ Len(u.v.fds) = Len(fds)
                          /\ \A d \in InodeIds \ {r.parent_id} :
                                 Fd(u.v, d).entries = Fd(Self, d).entries
                          /\ \E n \in DOMAIN Fd(Self, r.parent_id).entries \ {DOT, DOTDOT} :
                                 /\ Fd(Self, r.parent_id).entries[n] = r.id
                                 /\ Fd(u.v, r.parent_id).entries
                                      = Remove(Fd(Self, r.parent_id).entries, n)
                          /\ u.v.cwd_id = IF r.id = cwd_id THEN 0 ELSE cwd_id

\* rmdir(".") has just removed the working directory /d by a relative
\* pathname and left cwd_id at the root
C20_RemovedWorkingDirectory ==
    /\ last.op = "rmdir" /\ last.res = "Ok"
    /\ cwd = <<"/", "d">> /\ cwd_id = 0
    /\ <<"d">> \notin DOMAIN Fd(Self, root).entries

\* the kinds of inode the entries of the root name
RootKinds(v) ==
    {Fd(v, Fd(v, root).entries[n]).file_type : n \in DOMAIN Fd(v, root).entries}

\* C21: create(p) whose basename already exists in the resolved parent
\* directory, whatever kind of inode the entry names, returns Ok and leaves
\* the whole state as it was: nothing allocated, no entry added or replaced.
C21_CreateExistingIsNoOp ==
    \A p \in Paths :
        LET r == resolve(Self, SlashDot(dirname(p)))
        IN  (/\ ~panicked
             /\ r.kind = "Some"
             /\ is_dir(Fd(Self, r.id))
             /\ basename(p) \in DOMAIN Fd(Self, r.id).entries)
            => /\ create(Self, p).res = "Ok"
               /\ create(Self, p).v = Self

\* a create that returned Ok in a state that holds no regular inode at all,
\* over a root that names a directory and a symlink: it found its name taken
C21_CreatedOverExisting ==
    /\ last.op = "create" /\ last.res = "Ok"
    /\ \A id \in InodeIds : ~is_file(Fd(Self, id))
    /\ RootKinds(Self) = {"Directory", "Symlink"}

\* the handles whose cursor stands at the start of the inode id
HandlesAtStart(v, id) == {o \in DOMAIN v.open_fds : v.open_fds[o] = <<id, 0>>}

RoundTripPaths ==
    DirPaths \cup DirFilePaths \cup DirCdPaths \cup
    { <<>>, <<".", ".">>, <<"d">>, <<"f">>, <<"d", "/", "e">>, <<"k", "/", "e">>,
      <<"/", "k", "/", "e">>, <<"/", "d", "/", "/", "e">>, <<"/", "f", "/", "x">>,
      <<"e", "/", ".", ".">> }

\* format!("{}/{}", dirname(pathname), basename(pathname))
DirSlashBase(pathname) ==
    dirname(pathname) \o <<PATHNAME_SEPARATOR>> \o basename(pathname)

\* C23: for every pathname p that does not end in "/", resolving
\* dirname(p) + "/" + basename(p) gives the result of resolving p: the same
\* inode id, or not found both times; dirname("/d/e") = "/d",
\* dirname("/d") = "/", dirname("e") = ".", basename("/d/e") = "e" and
\* basename("e") = "e".
C23_DirnameBasenameRoundTrip ==
    /\ dirname(<<"/", "d", "/", "e">>) = <<"/", "d">>
    /\ dirname(<<"/", "d">>) = <<"/">>
    /\ dirname(<<"e">>) = <<".">>
    /\ basename(<<"/", "d", "/", "e">>) = <<"e">>
    /\ basename(<<"e">>) = <<"e">>
    /\ \A p \in RoundTripPaths :
           (p = <<>> \/ p[Len(p)] # PATHNAME_SEPARATOR) =>
               LET a == resolve(Self, p)
                   b == resolve(Self, DirSlashBase(p))
               IN  /\ a.kind = b.kind
                   /\ a.kind = "Some" => a.id = b.id

\* the working directory is not the root, and under it a relative pathname
\* resolves, one through ".." resolves, and one does not resolve
C23_RelativeFromWorkingDirectory ==
    /\ cwd_id # 0
    /\ resolve(Self, <<"e">>).kind = "Some"
    /\ resolve(Self, <<"e">>).id \notin {0, cwd_id}
    /\ resolve(Self, <<"e", "/", ".", ".">>).id = cwd_id
    /\ resolve(Self, <<"d">>).kind = "None"
    /\ resolve(Self, DirSlashBase(<<"e">>)).kind = "Some"

\* the ids below the high-water mark that are not free: handed out (or
\* never managed) and not released since
Outstanding(idn) == (0 .. (idn.next - 1)) \ idn.free

\* the smallest natural number that is not in keys
SmallestAbsent(keys) ==
    CHOOSE n \in 0 .. Cardinality(keys) :
        n \notin keys /\ \A m \in 0 .. (n - 1) : m \in keys

\* Identity::next on the allocator idn, as C24 describes it
NextAsDescribed(idn) ==
    LET n == IdentityNext(idn)
    IN  /\ idn.free # {} =>
            /\ n.id \in idn.free /\ \A y \in idn.free : n.id <= y
            /\ ~n.incremented
            /\ n.idn = [free |-> idn.free \ {n.id}, next |-> idn.next]
        /\ idn.free = {} =>
            /\ n.id = idn.next
            /\ n.incremented
            /\ n.idn = [free |-> {}, next |-> idn.next + 1]
        /\ n.incremented <=> n.id = idn.next
        /\ n.id \notin Outstanding(idn)
        /\ n.id \notin n.idn.free

\* C24: Identity::next returns the smallest free id with flag false when the
\* free set is not empty, and otherwise the high-water mark with flag true,
\* which it increments; the flag is true exactly when the id is the pre-call
\* high-water mark; an id that is handed out and not released is not handed
\* out again; and open returns the smallest natural number that is not a key
\* of the open-handle table.
C24_IdentityNextAndOpenIds ==
    /\ NextAsDescribed(blocks_id)
    /\ NextAsDescribed(fds_id)
    /\ NextAsDescribed(open_fds_id)
    /\ \A p \in FilePaths :
           LET o == open(Self, p)
           IN  (~panicked /\ o.res = "Ok") =>
                   /\ o.out = <<SmallestAbsent(DOMAIN open_fds)>>
                   /\ DOMAIN o.v.open_fds = DOMAIN open_fds \cup {o.out[1]}

\* open has returned the id 0 a second time, after close released it,
\* while the handle 1 opened after it is still open
C24_ReopenedLowestId ==
    /\ last.op = "open" /\ last.res = "Ok" /\ last.out = <<0>>
    /\ DOMAIN open_fds = {0, 1}
    /\ open_fds_id = [free |-> {}, next |-> 2]

\* two files, each with one name or both names on one inode, and the
\* handles on them: create, link, unlink, open, close, seek, write, read and
\* truncate
BytesPaths == { <<"/", "f">>, <<"/", "g">> }

BytesLinkPairs == { << <<"/", "f">>, <<"/", "g">> >> }

NextBytes ==
    \/ \E p \in BytesPaths : Within(MaxBytesOps) /\ Create(p)
    \/ \E pp \in BytesLinkPairs : Within(MaxBytesOps) /\ Link(pp[1], pp[2])
    \/ \E p \in BytesPaths : Within(MaxBytesOps) /\ Unlink(p)
    \/ \E p \in BytesPaths : Within(MaxBytesOps) /\ Open(p)
    \/ \E oid \in Oids : Within(MaxBytesOps) /\ Close(oid)
    \/ \E oid \in Oids, offset \in Sizes : Within(MaxBytesOps) /\ Seek(oid, offset)
    \/ \E oid \in Oids, data \in Datas : Within(MaxBytesOps) /\ Write(oid, data)
    \/ \E oid \in Oids, size \in Sizes : Within(MaxBytesOps) /\ Read(oid, size)
    \/ \E p \in BytesPaths, size \in Sizes : Within(MaxBytesOps) /\ Truncate(p, size)

SpecBytes == Init /\ [][NextBytes]_vars

\* the regular inodes that a directory entry names or a handle refers to
LiveFiles(v) ==
    {id \in 0 .. (Len(v.fds) - 1) :
        is_file(Fd(v, id)) /\ (EntriesNaming(v, id) # {} \/ id \in OpenInodes(v))}

\* the bytes of the file id as a read of the whole file returns them
Content(v, id) ==
    LET got == ReadLoop(v, Fd(v, id).blocks_refs, 0, Fd(v, id).size, <<>>)
    IN  IF got.panic THEN <<"panic">> ELSE got.data

\* the byte sequence of every live file
Contents(v) == [id \in LiveFiles(v) |-> Content(v, id)]

\* two states give every file that is live in both the same bytes
SameBytes(v, w) ==
    \A id \in LiveFiles(v) \cap LiveFiles(w) : Content(v, id) = Content(w, id)

\* the byte sequence after a write of data at cursor
AWrite(content, cursor, data) ==
    LET base == IF cursor > Len(content)
                THEN content \o Fill(cursor - Len(content), 0) ELSE content
    IN  [k \in 1 .. Max(Len(base), cursor + Len(data)) |->
            IF k - 1 >= cursor /\ k - 1 < cursor + Len(data)
            THEN data[k - cursor] ELSE base[k]]

\* the byte sequence cut to size, or padded with 0 up to size
ATruncate(content, size) ==
    IF size <= Len(content) THEN SubSeq(content, 1, size)
    ELSE content \o Fill(size - Len(content), 0)

\* the bytes a read of size bytes at cursor returns
ARead(content, cursor, size) ==
    SubSeq(content, cursor + 1, Min(cursor + size, Len(content)))

\* the calls on the handle o of the file id at cursor, against the byte
\* sequences
HandleCallsMatch(o, id, cursor) ==
    /\ \A data \in Datas :
           LET w == write(Self, o, data)
           IN  /\ w.res = "Ok" /\ w.out = <<Len(data)>>
               /\ w.v.open_fds[o] = <<id, cursor + Len(data)>>
               /\ Contents(w.v) =
                      [Contents(Self) EXCEPT ![id] = AWrite(@, cursor, data)]
    /\ \A size \in Sizes, wrap \in BOOLEAN :
           LET rd == read(Self, o, size, wrap)
           IN  /\ rd.res = "Ok"
               /\ rd.out = ARead(Content(Self, id), cursor, size)
               /\ Contents(rd.v) = Contents(Self)
    /\ \A offset \in Sizes : Contents(seek(Self, o, offset).v) = Contents(Self)
    /\ \A wrap \in BOOLEAN : SameBytes(Self, close(Self, o, wrap).v)

\* the calls on the pathname p, against the byte sequences
PathCallsMatch(p) ==
    LET r == resolve(Self, p)
        c == create(Self, p)
    IN  /\ SameBytes(Self, c.v)
        /\ \A id \in LiveFiles(c.v) \ LiveFiles(Self) : Content(c.v, id) = <<>>
        /\ SameBytes(Self, open(Self, p).v)
        /\ \A wrap \in BOOLEAN : SameBytes(Self, unlink(Self, p, wrap).v)
        /\ \A p2 \in BytesPaths : SameBytes(Self, link(Self, p, p2).v)
        /\ (r.kind = "Some" /\ r.id \in LiveFiles(Self)) =>
               \A size \in Sizes :
                   LET t == truncate(Self, p, size)
                   IN  /\ t.res = "Ok"
                       /\ Contents(t.v) =
                              [Contents(Self) EXCEPT ![r.id] = ATruncate(@, size)]

\* C25: with every regular file taken as a finite byte sequence (empty when
\* created, overwritten and extended by write at the handle's cursor, cut or
\* padded with 0 by truncate, untouched by link, unlink, open, close and
\* seek), every call leaves each file with the bytes the byte sequences
\* give and every read returns those bytes: the bytes of a file change only
\* in the range [cursor, cursor + |data|) of a write to that file.
C25_ReadsMatchByteSequences ==
    ~panicked =>
        /\ \A o \in DOMAIN open_fds :
               open_fds[o][1] \in LiveFiles(Self) =>
                   HandleCallsMatch(o, open_fds[o][1], open_fds[o][2])
        /\ \A p \in BytesPaths : PathCallsMatch(p)

\* the positions (inode, index) of the live regular inodes that hold the
\* block id b
PositionsOf(v, b) ==
    UNION {{<<id, k>> : k \in {j \in 1 .. Len(Fd(v, id).blocks_refs) :
                                  Fd(v, id).blocks_refs[j] = b}} :
           id \in LiveFiles(v)}

\* the block ids a write put into the blocks_refs of the inode id
StoredBy(v, w, id) ==
    {Fd(w, id).blocks_refs[k] : k \in {j \in 1 .. Len(Fd(w, id).blocks_refs) :
        j > Len(Fd(v, id).blocks_refs)
            \/ Fd(v, id).blocks_refs[j] # Fd(w, id).blocks_refs[j]}}

\* C26: no block of the block store backs two logical positions: every
\* block id a write stores into blocks_refs is at least 1, and no block id
\* of 1 or more stands at two positions (inode, index) of the blocks_refs
\* of the regular inodes that an entry names or a handle refers to.
C26_BlocksBackOnePosition ==
    ~panicked =>
        /\ \A o \in DOMAIN open_fds, data \in Datas :
               LET id == open_fds[o][1]
                   w  == write(Self, o, data)
               IN  (is_file(Fd(Self, id)) /\ w.res = "Ok") =>
                       /\ \A b \in StoredBy(Self, w.v, id) : b >= 1
                       /\ \A b \in 1 .. (w.v.blocks_id.next - 1) :
                              Cardinality(PositionsOf(w.v, b)) <= 1
        /\ \A b \in 1 .. (blocks_id.next - 1) :
               Cardinality(PositionsOf(Self, b)) <= 1

\* a call that returned an error left the state as it was
ErrKeepsState(r) == (r.res \notin {"Ok", "panic"}) => r.v = Self

\* C27: whenever a public operation (mkdir, rmdir, create, symlink, link,
\* unlink, open, close, seek, read, write, truncate, cd, stat, ls) returns
\* an error, the whole state (inode table, directory entries, block store,
\* open handles with their cursors, the three allocators, cwd_id and cwd) is
\* the state before the call.
C27_ErrorsLeaveStateUnchanged ==
    ~panicked =>
        /\ \A p \in Paths :
               /\ ErrKeepsState(mkdir(Self, p))
               /\ \A name \in RmdirNames(Self, p) \cup {<<>>} :
                      ErrKeepsState(rmdir(Self, p, name))
               /\ ErrKeepsState(create(Self, p))
               /\ \A t \in Targets : ErrKeepsState(symlink(Self, t, p))
               /\ \A p2 \in Paths : ErrKeepsState(link(Self, p, p2))
               /\ \A wrap \in BOOLEAN : ErrKeepsState(unlink(Self, p, wrap))
               /\ ErrKeepsState(open(Self, p))
               /\ \A size \in Sizes : ErrKeepsState(truncate(Self, p, size))
               /\ ErrKeepsState(cd(Self, p))
               /\ ErrKeepsState(stat(Self, p))
               /\ ErrKeepsState(ls(Self, p))
        /\ \A oid \in Oids :
               /\ \A wrap \in BOOLEAN : ErrKeepsState(close(Self, oid, wrap))
               /\ \A offset \in Sizes : ErrKeepsState(seek(Self, oid, offset))
               /\ \A size \in Sizes, wrap \in BOOLEAN :
                      ErrKeepsState(read(Self, oid, size, wrap))
               /\ \A data \in Datas : ErrKeepsState(write(Self, oid, data))

\* C28: the two cached working-directory fields agree: cwd_id is a
\* directory inode reachable from the root, and resolving the string cwd()
\* returns yields the inode id cwd_id.
C28_CwdFieldsAgree ==
    ~panicked =>
        /\ InRange(fds, cwd_id)
        /\ is_dir(Fd(Self, cwd_id))
        /\ cwd_id \in ReachFrom(Self, {root})
        /\ resolve(Self, cwd).kind = "Some"
        /\ resolve(Self, cwd).id = cwd_id

\* a walk of resolve or realpath is in progress
Walking == walk # Idle

\* a walk taken one iteration at a time ends with the result the operators
\* resolve and realpath compute for its pathname, and no walk expands more
\* symlinks than SYMLINK_RESOLVE_LIMIT
WalkEndsAsOperators ==
    /\ walk.symlink_resolve_count <= SYMLINK_RESOLVE_LIMIT
    /\ (~Walking /\ last.op = "resolve") =>
           LET r == resolve(Self, last.arg)
           IN  /\ last.res = r.kind
               /\ r.kind = "Some" => last.out = <<r.id, r.parent_id>>
    /\ (~Walking /\ last.op = "realpath") =>
           LET rp == RealpathCall(Self, last.arg)
           IN  /\ last.res = rp.res
               /\ rp.res = "Ok" => last.out = rp.out


\* C29: resolve and realpath terminate for every pathname in every reachable
\* state, states with self-referential and mutually referential symlinks and
\* with symlinks whose targets hold "." and ".." included: a walk that has
\* begun comes to its end.
C29_WalksTerminate == Walking ~> ~Walking

\* realpath has returned None for a pathname that leads through the two
\* symlinks /m -> /n and /n -> /m, which refer to each other
C29_MutualLoopWalked ==
    /\ ~Walking
    /\ last.op = "realpath" /\ last.res = "NotFound"
    /\ last.arg = <<"/", "m", "/", "x">>
    /\ IsLinkTo(Self, <<"m">>, <<"/", "n">>)
    /\ IsLinkTo(Self, <<"n">>, <<"/", "m">>)

=============================================================================
